---------------------------- MODULE Spec2Model ----------------------------
(***************************************************************************)
(* State-machine model of the "Handmade by Rama" API (src/main.py) and its *)
(* validation schemas (src/schemas.py).                                    *)
(*                                                                         *)
(* Conventions                                                             *)
(*   - a Python str is a sequence of one-character strings, so that        *)
(*     strip / startswith / len / slicing are computed, not assumed;       *)
(*   - a bson ObjectId is the record [oid |-> <24 lower-case hex chars>];  *)
(*     str(ObjectId) is its oid field;                                     *)
(*   - a MongoDB collection is the sequence of its documents in natural    *)
(*     (insertion) order; find_one returns the first match;                *)
(*   - price_usd (a float with at most two decimals in this program) is    *)
(*     kept in cents, so that usd * rate is exact integer arithmetic;      *)
(*   - Python None is the string "None".                                   *)
(* Document fields no handler reads back (description, images, flags,      *)
(* created_at, user timestamps, is_active) are not carried.                *)
(***************************************************************************)
EXTENDS Integers, Sequences, FiniteSets, TLC

\* Bounds of the model (not program constants).
MaxSeeds == 2
MaxOrders == 2
MaxClock == 4
NumWorkers == 2

VARIABLES
    environ,    \* os.environ["USD_TO_SYP"], fixed for the life of the process
    product,    \* db["product"]
    user,       \* db["user"]
    order,      \* db["order"]
    seeds,      \* number of insert_many batches so far (ObjectId generation)
    now,        \* the wall clock read by datetime.utcnow()
    resp,       \* the last completed request and its HTTP response
    inflight,   \* per worker thread: the request it is in the middle of
    acked       \* history: address keys acknowledged to a client, per user phone

vars == <<environ, product, user, order, seeds, now, resp, inflight, acked>>

None == "None"

-----------------------------------------------------------------------------
(* Strings                                                                 *)

StartsWith(s, prefix) ==
    /\ Len(s) >= Len(prefix)
    /\ SubSeq(s, 1, Len(prefix)) = prefix

Whitespace == {" "}

RECURSIVE LStrip(_)
LStrip(s) == IF s # <<>> /\ Head(s) \in Whitespace THEN LStrip(Tail(s)) ELSE s

RECURSIVE RStrip(_)
RStrip(s) ==
    IF s # <<>> /\ s[Len(s)] \in Whitespace THEN RStrip(SubSeq(s, 1, Len(s) - 1)) ELSE s

\* str.strip()
Strip(s) == RStrip(LStrip(s))

-----------------------------------------------------------------------------
(* Phones: schemas.Address.validate_phone                                  *)

Plus963 == <<"+", "9", "6", "3">>
ZeroNine == <<"0", "9">>

\* The field validator: the normalised phone, or a ValueError (ok = FALSE).
validate_phone(v) ==
    LET s == Strip(v) IN
    IF StartsWith(s, Plus963) /\ Len(s) \in {12, 13}
    THEN [ok |-> TRUE, value |-> s]
    ELSE IF StartsWith(s, ZeroNine) /\ Len(s) = 10
         THEN [ok |-> TRUE, value |-> Plus963 \o Tail(s)]
         ELSE [ok |-> FALSE, value |-> <<>>]

\* "Phone in +963 format" (schemas.py, Field descriptions of Address.phone, User.phone)
IsNormalized(p) == StartsWith(p, Plus963) /\ Len(p) \in {12, 13}

Local1 == <<"0", "9", "1", "2", "3", "4", "5", "6", "7", "8">>
Intl1 == <<"+", "9", "6", "3", "9", "1", "2", "3", "4", "5", "6", "7", "8">>
Padded1 == <<" ">> \o Local1 \o <<" ">>
Local2 == <<"0", "9", "9", "8", "7", "6", "5", "4", "3", "2">>
Intl2 == <<"+", "9", "6", "3", "9", "9", "8", "7", "6", "5", "4", "3", "2">>
BadPhone == <<"1", "2", "3", "4", "5">>

-----------------------------------------------------------------------------
(* ObjectIds: bson.ObjectId as used by main.py                             *)

OidLen == 24
HexChars == <<"0", "1", "2", "3", "4", "5", "6", "7", "8", "9",
              "a", "b", "c", "d", "e", "f">>
UpperHex == <<"A", "B", "C", "D", "E", "F">>
HexSet == {HexChars[i] : i \in 1..16} \cup {UpperHex[i] : i \in 1..6}

LowerChar(c) ==
    IF \E i \in 1..6 : UpperHex[i] = c
    THEN HexChars[10 + (CHOOSE i \in 1..6 : UpperHex[i] = c)]
    ELSE c

\* ObjectId.is_valid(s) for a str: 24 hexadecimal characters.
is_valid(s) == Len(s) = OidLen /\ \A i \in 1..Len(s) : s[i] \in HexSet

\* ObjectId(s) for a valid s (the caller decides what an invalid s does).
ObjectId(s) == [oid |-> [i \in 1..Len(s) |-> LowerChar(s[i])]]

\* str(ObjectId)
StrOfOid(o) == o.oid

\* The n-th identifier generated for a collection (tag: one hex character).
\* Generated ObjectIds are unique; which 12 bytes they are is immaterial.
NewObjectId(tag, n) ==
    [oid |-> [i \in 1..OidLen |->
                IF i = 1 THEN tag
                ELSE IF i = OidLen - 1 THEN HexChars[((n \div 16) % 16) + 1]
                ELSE IF i = OidLen THEN HexChars[(n % 16) + 1]
                ELSE "0"]]

ProductTag == "a"
OrderTag == "b"
UserTag == "c"
LegacyTag == "e"

-----------------------------------------------------------------------------
(* Exchange rate: usd_to_syp_rate                                          *)

Digits == <<"0", "1", "2", "3", "4", "5", "6", "7", "8", "9">>
IsDigit(c) == \E i \in 1..10 : Digits[i] = c
DigitVal(c) == (CHOOSE i \in 1..10 : Digits[i] = c) - 1

RECURSIVE DigitsValue(_)
DigitsValue(s) ==
    IF s = <<>> THEN 0
    ELSE 10 * DigitsValue(SubSeq(s, 1, Len(s) - 1)) + DigitVal(s[Len(s)])

\* int(str): an optionally signed, non-empty run of decimal digits.
IntParses(s) ==
    LET t == Strip(s)
        d == IF t # <<>> /\ Head(t) \in {"-", "+"} THEN Tail(t) ELSE t
    IN d # <<>> /\ \A i \in 1..Len(d) : IsDigit(d[i])

IntOf(s) ==
    LET t == Strip(s) IN
    IF Head(t) = "-" THEN 0 - DigitsValue(Tail(t))
    ELSE IF Head(t) = "+" THEN DigitsValue(Tail(t))
    ELSE DigitsValue(t)

DefaultRate == <<"1", "5", "0", "0", "0">>

\* os.getenv("USD_TO_SYP", "15000")
getenv_rate == IF environ = <<>> THEN DefaultRate ELSE environ[1]

usd_to_syp_rate == IF IntParses(getenv_rate) THEN IntOf(getenv_rate) ELSE 15000

\* Values of the USD_TO_SYP variable: unset (<<>>), or <<the string>>.
EnvValues ==
    { <<>>,
      << <<"1">> >>,
      << <<"2">> >>,
      << <<"3">> >>,
      << <<"-", "1">> >>,
      << <<"a", "b", "c">> >> }

-----------------------------------------------------------------------------
(* Collections: the pymongo calls main.py makes                            *)

\* find_one({"_id": oid}) / find_one({"phone": phone}): <<>> or <<first match>>.
find_one_by_id(coll, oid) ==
    LET hits == {i \in DOMAIN coll : coll[i]._id = oid} IN
    IF hits = {} THEN <<>>
    ELSE << coll[CHOOSE i \in hits : \A j \in hits : i <= j] >>

find_one_by_phone(coll, phone) ==
    LET hits == {i \in DOMAIN coll : coll[i].phone = phone} IN
    IF hits = {} THEN <<>>
    ELSE << coll[CHOOSE i \in hits : \A j \in hits : i <= j] >>

\* The commonly used HTTP answers.
Response(op, req, code, body) == [op |-> op, req |-> req, code |-> code, body |-> body]

\* An exception no handler catches: Starlette answers 500.
ServerError(op, req, what) == Response(op, req, 500, what)

\* A request body FastAPI could not validate: 422, the handler never runs.
Unprocessable(op, req) == Response(op, req, 422, "RequestValidationError")

-----------------------------------------------------------------------------
(* Products: schemas.Product, seed_products, get_product                   *)

CategoryLiteral == {"necklaces", "bracelets", "earrings", "rings"}

\* round(x) of x = a / b, as Python rounds: to nearest, a half to the even side.
RoundHalfEven(a, b) ==
    LET m == IF a >= 0 THEN a ELSE 0 - a
        q == m \div b
        r == m % b
        n == IF 2 * r < b THEN q
             ELSE IF 2 * r > b THEN q + 1
             ELSE IF q % 2 = 0 THEN q ELSE q + 1
    IN IF a >= 0 THEN n ELSE 0 - n

\* int(x) of the float x = a / b: truncation toward zero.
IntTrunc(a, b) == IF a >= 0 THEN a \div b ELSE 0 - ((0 - a) \div b)

\* priced(category, usd) of seed_products; usd is <<>> (None) or <<cents>>.
priced(usd, rate) ==
    IF usd = <<>>
    THEN [price_usd |-> 0, price_syp |-> 0]
    ELSE [price_usd |-> usd[1], price_syp |-> IntTrunc(usd[1] * rate, 100)]

\* The seed list of seed_products, before pricing.
SeedTable ==
    << [name |-> "Handmade Necklace 1", category |-> "necklaces", usd |-> <<250>>],
       [name |-> "Handmade Necklace 2", category |-> "necklaces", usd |-> <<250>>],
       [name |-> "Handmade Bracelet 1", category |-> "bracelets", usd |-> <<150>>],
       [name |-> "Handmade Earrings 1", category |-> "earrings", usd |-> <<150>>],
       [name |-> "Handmade Ring 1", category |-> "rings", usd |-> <<>>] >>

seed(rate) ==
    [i \in DOMAIN SeedTable |->
        [name |-> SeedTable[i].name,
         category |-> SeedTable[i].category,
         price_usd |-> priced(SeedTable[i].usd, rate).price_usd,
         price_syp |-> priced(SeedTable[i].usd, rate).price_syp]]

\* ProductSchema(**p): the Literal and the two ge=0 constraints.
ProductSchemaOk(p) ==
    /\ p.category \in CategoryLiteral
    /\ p.price_syp >= 0
    /\ p.price_usd >= 0

\* insert_many(docs) into the emptied collection: every document gets a new _id.
insert_many(docs, batch) ==
    [i \in DOMAIN docs |->
        [_id |-> NewObjectId(ProductTag, Len(docs) * batch + i),
         name |-> docs[i].name,
         category |-> docs[i].category,
         price_usd |-> docs[i].price_usd,
         price_syp |-> docs[i].price_syp]]

\* product_doc_with_id
product_doc_with_id(doc) ==
    [id |-> StrOfOid(doc._id), name |-> doc.name, category |-> doc.category,
     price_usd |-> doc.price_usd, price_syp |-> doc.price_syp]

\* A catalog entry that was in the database before this process started.
LegacyProduct ==
    [_id |-> NewObjectId(LegacyTag, 1), name |-> "Legacy Ring", category |-> "rings",
     price_usd |-> 100, price_syp |-> 1500000]

SeedProducts(force) ==
    LET req == [force |-> force]
        count == Len(product)
        rate == usd_to_syp_rate
        docs == seed(rate)
    IN
    IF count > 0 /\ ~force
    THEN /\ resp' = Response("seed_products", req, 200, [status |-> "exists", count |-> count])
         /\ UNCHANGED <<environ, product, user, order, seeds, now, inflight, acked>>
    ELSE IF \E i \in DOMAIN docs : ~ProductSchemaOk(docs[i])
    THEN /\ resp' = ServerError("seed_products", req, "ValidationError")
         /\ UNCHANGED <<environ, product, user, order, seeds, now, inflight, acked>>
    ELSE /\ seeds < MaxSeeds
         /\ product' = insert_many(docs, seeds)
         /\ seeds' = seeds + 1
         /\ resp' = Response("seed_products", req, 200, [status |-> "seeded", count |-> Len(docs)])
         /\ UNCHANGED <<environ, user, order, now, inflight, acked>>

GetProduct(product_id) ==
    LET req == [product_id |-> product_id] IN
    /\ IF ~is_valid(product_id)
       THEN resp' = ServerError("get_product", req, "InvalidId")
       ELSE LET doc == find_one_by_id(product, ObjectId(product_id)) IN
            IF doc = <<>>
            THEN resp' = Response("get_product", req, 404, "Product not found")
            ELSE resp' = Response("get_product", req, 200, product_doc_with_id(doc[1]))
    /\ UNCHANGED <<environ, product, user, order, seeds, now, inflight, acked>>

\* Identifier strings a client may send.
UnknownId == [i \in 1..OidLen |-> "f"]
MalformedId == <<"x", "y", "z">>
ProductIdInputs ==
    {StrOfOid(product[i]._id) : i \in DOMAIN product} \cup {UnknownId, MalformedId}

-----------------------------------------------------------------------------
(* Users and addresses: schemas.Address, schemas.User, add_address         *)

\* AddressSchema(...).model_dump() of a body whose phone validated.
AddressDump(body) ==
    [full_name |-> body.full_name,
     phone |-> validate_phone(body.phone).value,
     city |-> body.city,
     street |-> body.street,
     notes |-> body.notes]

\* A duplicate test that compares whole addresses instead of the (phone, street) key.
exists_whole_address(addresses, addr) ==
    \E i \in DOMAIN addresses : addresses[i] = addr

\* any(a.phone == addr.phone and a.street == addr.street for a in addresses)
exists(addresses, addr) ==
    \E i \in DOMAIN addresses :
        addresses[i].phone = addr.phone /\ addresses[i].street = addr.street

\* UserSchema(phone=..., name=..., addresses=[addr]).model_dump() + insert_one.
\* User.phone carries no validator: the phone is stored as given.
insert_user(coll, phone, name, addr) ==
    Append(coll, [_id |-> NewObjectId(UserTag, Len(coll) + 1),
                  phone |-> phone,
                  name |-> name,
                  addresses |-> <<addr>>])

\* update_one({"_id": _id}, {"$set": {"addresses": addresses}})
update_addresses(coll, _id, addresses) ==
    [i \in DOMAIN coll |->
        IF coll[i]._id = _id THEN [coll[i] EXCEPT !.addresses = addresses] ELSE coll[i]]

\* Lines 242-254 of add_address and 317-327 of create_order: what the write
\* half does to db["user"], given the result `found` of the earlier find_one.
save_address(coll, found, phone, name, addr) ==
    IF found = <<>>
    THEN insert_user(coll, phone, name, addr)
    ELSE IF ~exists(found[1].addresses, addr)
         THEN update_addresses(coll, found[1]._id, Append(found[1].addresses, addr))
         ELSE coll

AddAddress(phone, body) ==
    LET req == [phone |-> phone, body |-> body] IN
    IF ~validate_phone(body.phone).ok
    THEN /\ resp' = Unprocessable("add_address", req)
         /\ UNCHANGED <<environ, product, user, order, seeds, now, inflight, acked>>
    ELSE /\ user' = save_address(user, find_one_by_phone(user, phone), phone,
                                 body.full_name, AddressDump(body))
         /\ resp' = Response("add_address", req, 200, [ok |-> TRUE])
         /\ UNCHANGED <<environ, product, order, seeds, now, inflight, acked>>

Body(full_name, phone, city, street, notes) ==
    [full_name |-> full_name, phone |-> phone, city |-> city, street |-> street,
     notes |-> notes]

\* Request bodies and path phones a client may send to add_address.
AddressInputs ==
    { Body("Rama", Local1, "Damascus", "Street 1", None),
      Body("Lina", Intl1, "Aleppo", "Street 1", "Ring twice"),
      Body("Rama", Padded1, "Damascus", "Street 2", None),
      Body("Rama", Local2, "Damascus", "Street 1", None),
      Body("Rama", BadPhone, "Damascus", "Street 1", None) }

PathPhones == {Local1, Intl1}

-----------------------------------------------------------------------------
(* Orders: schemas.OrderItem, schemas.Order, create_order                  *)

OrderStatus == {"Pending COD", "Pending", "Confirmed", "On Delivery", "Delivered", "Canceled"}

\* The first item of body.items the lookup loop stops at, or 0: the loop
\* raises at the first product_id that is malformed or resolves to nothing.
RECURSIVE first_failing(_, _)
first_failing(items, i) ==
    IF i > Len(items) THEN 0
    ELSE IF ~is_valid(items[i].product_id) THEN i
    ELSE IF find_one_by_id(product, ObjectId(items[i].product_id)) = <<>> THEN i
    ELSE first_failing(items, i + 1)

\* items_out: "product_id": prod["_id"] is the ObjectId itself, not its str.
items_out(items) ==
    [i \in DOMAIN items |->
        LET prod == find_one_by_id(product, ObjectId(items[i].product_id))[1] IN
        [product_id |-> [type |-> "ObjectId", value |-> prod._id],
         name |-> prod.name,
         category |-> prod.category,
         quantity |-> items[i].quantity,
         price_syp |-> prod.price_syp,
         price_usd |-> prod.price_usd]]

\* OrderItem(**item): product_id: str accepts a str only (pydantic v2 does not
\* coerce other objects to str), category is the Literal, quantity >= 1.
OrderItemOk(item) ==
    /\ item.product_id.type = "str"
    /\ item.category \in CategoryLiteral
    /\ item.quantity >= 1

\* OrderSchema(..., items=items_out, status="Pending COD")
OrderSchemaOk(items) == \A i \in DOMAIN items : OrderItemOk(items[i])

order_doc(n, addr, items, t) ==
    [_id |-> NewObjectId(OrderTag, n),
     user_phone |-> addr.phone,
     user_name |-> addr.full_name,
     items |-> items,
     address |-> addr,
     city |-> addr.city,
     notes |-> addr.notes,
     status |-> "Pending COD",
     admin_note |-> None,
     expected_delivery_date |-> None,
     updated_at |-> t]

\* datetime.utcnow(): requests are served one after the other, each write reads
\* a later time than the one before.  MaxClock bounds the number of writes.
utcnow == IF now < MaxClock THEN {now + 1} ELSE {}

CreateOrder(body) ==
    LET req == [body |-> body]
        bad == first_failing(body.items, 1)
    IN
    IF \E i \in DOMAIN body.items : body.items[i].quantity < 1
    THEN /\ resp' = Unprocessable("create_order", req)
         /\ UNCHANGED <<environ, product, user, order, seeds, now, inflight, acked>>
    ELSE IF bad > 0 /\ ~is_valid(body.items[bad].product_id)
    THEN /\ resp' = ServerError("create_order", req, "InvalidId")
         /\ UNCHANGED <<environ, product, user, order, seeds, now, inflight, acked>>
    ELSE IF bad > 0
    THEN /\ resp' = Response("create_order", req, 400, body.items[bad].product_id)
         /\ UNCHANGED <<environ, product, user, order, seeds, now, inflight, acked>>
    ELSE IF ~validate_phone(body.phone).ok \/ ~OrderSchemaOk(items_out(body.items))
    THEN /\ resp' = ServerError("create_order", req, "ValidationError")
         /\ UNCHANGED <<environ, product, user, order, seeds, now, inflight, acked>>
    ELSE LET addr == AddressDump(body) IN
         /\ Len(order) < MaxOrders
         /\ \E t \in utcnow :
              /\ now' = t
              /\ order' = Append(order, order_doc(Len(order) + 1, addr, items_out(body.items), t))
         /\ user' = save_address(user, find_one_by_phone(user, addr.phone), addr.phone,
                                 addr.full_name, addr)
         /\ resp' = Response("create_order", req, 200,
                             [id |-> StrOfOid(NewObjectId(OrderTag, Len(order) + 1)),
                              status |-> "Pending COD"])
         /\ UNCHANGED <<environ, product, seeds, inflight, acked>>

Item(product_id, quantity) == [product_id |-> product_id, quantity |-> quantity]

OrderBody(phone, street, items) ==
    [full_name |-> "Rama", phone |-> phone, city |-> "Damascus", street |-> street,
     notes |-> None, items |-> items]

\* Item lists a client may send: empty, resolvable, unknown (first or after a
\* resolvable one), malformed, and a zero quantity.
ItemLists ==
    { <<>>, <<Item(UnknownId, 1)>>, <<Item(MalformedId, 1)>> }
    \cup UNION { { <<Item(StrOfOid(product[i]._id), 1)>>,
                   <<Item(StrOfOid(product[i]._id), 2), Item(UnknownId, 1)>>,
                   <<Item(StrOfOid(product[i]._id), 1), Item(MalformedId, 1)>>,
                   <<Item(StrOfOid(product[i]._id), 0)>> } : i \in DOMAIN product \cap {1} }

OrderInputs ==
    { OrderBody(Local1, "Street 1", items) : items \in ItemLists }
    \cup { OrderBody(Local1, "Street 2", <<>>),
           OrderBody(Local2, "Street 1", <<>>),
           OrderBody(BadPhone, "Street 1", <<>>) }

-----------------------------------------------------------------------------
(* Order status: update_order_status, order_notifications                  *)

allowed == {"Pending", "Confirmed", "On Delivery", "Delivered", "Canceled", "Pending COD"}

\* order_doc_with_id
order_doc_with_id(doc) ==
    [id |-> StrOfOid(doc._id), user_phone |-> doc.user_phone, user_name |-> doc.user_name,
     items |-> doc.items, address |-> doc.address, city |-> doc.city, notes |-> doc.notes,
     status |-> doc.status, admin_note |-> doc.admin_note,
     expected_delivery_date |-> doc.expected_delivery_date, updated_at |-> doc.updated_at]

\* The $set document of update_order_status applied to one order.
apply_upd(doc, body, t) ==
    [doc EXCEPT
        !.status = body.status,
        !.updated_at = t,
        !.admin_note = IF body.admin_note # None THEN body.admin_note ELSE @,
        !.expected_delivery_date =
            IF body.expected_delivery_date # None THEN body.expected_delivery_date ELSE @]

\* update_one({"_id": oid}, {"$set": upd})
update_one_order(coll, oid, body, t) ==
    [i \in DOMAIN coll |-> IF coll[i]._id = oid THEN apply_upd(coll[i], body, t) ELSE coll[i]]

UpdateOrderStatus(order_id, body) ==
    LET req == [order_id |-> order_id, body |-> body] IN
    IF body.status \notin allowed
    THEN /\ resp' = Response("update_order_status", req, 400, "Invalid status")
         /\ UNCHANGED <<environ, product, user, order, seeds, now, inflight, acked>>
    ELSE IF ~is_valid(order_id)
    THEN /\ resp' = ServerError("update_order_status", req, "InvalidId")
         /\ UNCHANGED <<environ, product, user, order, seeds, now, inflight, acked>>
    ELSE IF find_one_by_id(order, ObjectId(order_id)) = <<>>
    THEN /\ resp' = Response("update_order_status", req, 404, "Order not found")
         /\ UNCHANGED <<environ, product, user, order, seeds, now, inflight, acked>>
    ELSE /\ \E t \in utcnow :
              /\ now' = t
              /\ order' = update_one_order(order, ObjectId(order_id), body, t)
         /\ resp' = Response("update_order_status", req, 200,
                             order_doc_with_id(find_one_by_id(order', ObjectId(order_id))[1]))
         /\ UNCHANGED <<environ, product, user, seeds, inflight, acked>>

\* The same query sorted the wrong way round (updated_at ascending).
on_delivery_oldest(coll, phone) ==
    LET hits == {i \in DOMAIN coll :
                    coll[i].user_phone = phone /\ coll[i].status = "On Delivery"}
    IN {i \in hits : \A j \in hits : coll[i].updated_at <= coll[j].updated_at}

\* find_one({"user_phone": phone, "status": "On Delivery"}, sort=[("updated_at", -1)]):
\* the positions the query may return (any of those with the greatest updated_at).
on_delivery_first(coll, phone) ==
    LET hits == {i \in DOMAIN coll :
                    coll[i].user_phone = phone /\ coll[i].status = "On Delivery"}
    IN {i \in hits : \A j \in hits : coll[j].updated_at <= coll[i].updated_at}

OrderNotifications(phone) ==
    LET req == [phone |-> phone]
        docs == on_delivery_first(order, phone)
    IN
    /\ IF docs = {}
       THEN resp' = Response("order_notifications", req, 200, [on_delivery |-> FALSE])
       ELSE \E i \in docs :
              resp' = Response("order_notifications", req, 200,
                               [on_delivery |-> TRUE,
                                order_id |-> StrOfOid(order[i]._id),
                                expected_delivery_date |-> order[i].expected_delivery_date])
    /\ UNCHANGED <<environ, product, user, order, seeds, now, inflight, acked>>

StatusBody(status, admin_note, expected_delivery_date) ==
    [status |-> status, admin_note |-> admin_note,
     expected_delivery_date |-> expected_delivery_date]

StatusInputs ==
    { StatusBody("On Delivery", None, None),
      StatusBody("On Delivery", "Call first", "2024-01-01"),
      StatusBody("Delivered", None, None),
      StatusBody("Shipped", None, None) }

OrderIdInputs ==
    {StrOfOid(order[i]._id) : i \in DOMAIN order} \cup {UnknownId, MalformedId}

NotifyPhones == {Local1, Intl1, Intl2}

-----------------------------------------------------------------------------
(* Concurrent requests.  The handlers are plain `def`s, which FastAPI runs  *)
(* on a thread pool: two requests interleave between their database calls. *)
(* Each of the two user-writing handlers is cut where it matters, between  *)
(* its find_one on db["user"] and the insert_one / update_one that follows.*)

Workers == 1..NumWorkers
Idle == [op |-> "idle"]

\* add_address up to and including line 240 (user = find_one).
AddAddressFind(w, phone, body) ==
    /\ inflight[w] = Idle
    /\ IF ~validate_phone(body.phone).ok
       THEN AddAddress(phone, body)
       ELSE /\ inflight' = [inflight EXCEPT ![w] =
                                [op |-> "add_address", phone |-> phone, body |-> body,
                                 found |-> find_one_by_phone(user, phone)]]
            /\ UNCHANGED <<environ, product, user, order, seeds, now, resp, acked>>

\* add_address from line 241 to its return.
AddAddressSave(w) ==
    LET r == inflight[w] IN
    /\ r.op = "add_address"
    /\ user' = save_address(user, r.found, r.phone, r.body.full_name, AddressDump(r.body))
    /\ resp' = Response("add_address", [phone |-> r.phone, body |-> r.body], 200, [ok |-> TRUE])
    /\ acked' = acked \cup {<<r.phone, AddressDump(r.body).phone, r.body.street>>}
    /\ inflight' = [inflight EXCEPT ![w] = Idle]
    /\ UNCHANGED <<environ, product, order, seeds, now>>

\* Whether create_order gets as far as inserting the order.
order_accepted(body) ==
    /\ \A i \in DOMAIN body.items : body.items[i].quantity >= 1
    /\ first_failing(body.items, 1) = 0
    /\ validate_phone(body.phone).ok
    /\ OrderSchemaOk(items_out(body.items))

\* create_order up to and including line 316 (insert the order, find the user).
CreateOrderInsert(w, body) ==
    /\ inflight[w] = Idle
    /\ IF ~order_accepted(body)
       THEN CreateOrder(body)
       ELSE LET addr == AddressDump(body) IN
            /\ Len(order) < MaxOrders
            /\ \E t \in utcnow :
                 /\ now' = t
                 /\ order' = Append(order, order_doc(Len(order) + 1, addr,
                                                     items_out(body.items), t))
            /\ inflight' = [inflight EXCEPT ![w] =
                                [op |-> "create_order", body |-> body,
                                 id |-> StrOfOid(NewObjectId(OrderTag, Len(order) + 1)),
                                 found |-> find_one_by_phone(user, addr.phone)]]
            /\ UNCHANGED <<environ, product, user, seeds, resp, acked>>

\* create_order from line 317 to its return.
CreateOrderSave(w) ==
    LET r == inflight[w]
        addr == AddressDump(r.body)
    IN
    /\ r.op = "create_order"
    /\ user' = save_address(user, r.found, addr.phone, addr.full_name, addr)
    /\ resp' = Response("create_order", [body |-> r.body], 200,
                        [id |-> r.id, status |-> "Pending COD"])
    /\ acked' = acked \cup {<<addr.phone, addr.phone, addr.street>>}
    /\ inflight' = [inflight EXCEPT ![w] = Idle]
    /\ UNCHANGED <<environ, product, order, seeds, now>>

ConcAddressInputs ==
    { Body("Rama", Local1, "Damascus", "Street 1", None),
      Body("Rama", Intl1, "Damascus", "Street 2", None),
      Body("Rama", BadPhone, "Damascus", "Street 1", None) }

ConcOrderInputs ==
    { OrderBody(Local1, "Street 1", <<>>),
      OrderBody(Local1, "Street 3", <<>>),
      OrderBody(Local1, "Street 1", <<Item(UnknownId, 1)>>) }

-----------------------------------------------------------------------------
(* Specifications                                                          *)

NoResponse == Response("none", <<>>, 0, <<>>)

Init ==
    /\ environ \in EnvValues
    /\ product \in {<<>>, <<LegacyProduct>>}
    /\ user = <<>>
    /\ order = <<>>
    /\ seeds = 0
    /\ now = 0
    /\ resp = NoResponse
    /\ inflight = [w \in Workers |-> Idle]
    /\ acked = {}

\* One request at a time, every handler run from its first line to its return.
Next ==
    \/ \E force \in BOOLEAN : SeedProducts(force)
    \/ \E product_id \in ProductIdInputs : GetProduct(product_id)
    \/ \E phone \in PathPhones, body \in AddressInputs : AddAddress(phone, body)
    \/ \E body \in OrderInputs : CreateOrder(body)
    \/ \E order_id \in OrderIdInputs, body \in StatusInputs : UpdateOrderStatus(order_id, body)
    \/ \E phone \in NotifyPhones : OrderNotifications(phone)

Spec == Init /\ [][Next]_vars

(* db["product"] is written by seed_products only, db["order"] by           *)
(* create_order and update_order_status, db["user"] by add_address and      *)
(* create_order.  The specifications below each run the handlers that read  *)
(* or write one of the collections, from a database in which the others are *)
(* as the handlers left out would find them.                                *)

InitServing ==
    /\ Init
    /\ environ = <<>>
    /\ product = <<LegacyProduct>>

\* The catalog.
NextCatalog ==
    \/ \E force \in BOOLEAN : SeedProducts(force)
    \/ \E product_id \in ProductIdInputs : GetProduct(product_id)

SpecCatalog == Init /\ [][NextCatalog]_vars

\* The address book.
UsersOrderInputs ==
    { OrderBody(Local1, "Street 2", items) : items \in ItemLists }
    \cup { OrderBody(BadPhone, "Street 2", <<>>) }

NextUsers ==
    \/ \E phone \in PathPhones, body \in AddressInputs : AddAddress(phone, body)
    \/ \E body \in UsersOrderInputs : CreateOrder(body)

SpecUsers == InitServing /\ [][NextUsers]_vars

\* The orders.
OrdersOrderInputs ==
    { OrderBody(Local1, "Street 1", <<>>),
      OrderBody(Local2, "Street 1", <<>>),
      OrderBody(Local1, "Street 1", <<Item(UnknownId, 1)>>) }

NextOrders ==
    \/ \E body \in OrdersOrderInputs : CreateOrder(body)
    \/ \E order_id \in OrderIdInputs, body \in StatusInputs : UpdateOrderStatus(order_id, body)
    \/ \E phone \in NotifyPhones : OrderNotifications(phone)

SpecOrders == InitServing /\ [][NextOrders]_vars

\* The status of an order: every status value, allowed or not.
AllStatusInputs == { StatusBody(s, None, None) : s \in OrderStatus \cup {"Shipped"} }

NextStatus ==
    \/ CreateOrder(OrderBody(Local1, "Street 1", <<>>))
    \/ \E order_id \in OrderIdInputs, body \in AllStatusInputs :
          UpdateOrderStatus(order_id, body)

SpecStatus == InitServing /\ [][NextStatus]_vars

\* Requests for one phone interleaved on the thread pool.
NextConc ==
    \/ \E w \in Workers, body \in ConcAddressInputs : AddAddressFind(w, Intl1, body)
    \/ \E w \in Workers : AddAddressSave(w)
    \/ \E w \in Workers, body \in ConcOrderInputs : CreateOrderInsert(w, body)
    \/ \E w \in Workers : CreateOrderSave(w)

SpecConc == InitServing /\ [][NextConc]_vars

-----------------------------------------------------------------------------
(* Properties                                                              *)

\* The (phone, street) deduplication key of a stored address.
KeyOf(a) == <<a.phone, a.street>>

NoDuplicateKeys(coll) ==
    \A u \in DOMAIN coll : \A i, j \in DOMAIN coll[u].addresses :
        KeyOf(coll[u].addresses[i]) = KeyOf(coll[u].addresses[j]) => i = j

\* C1: an add_address for a phone that already has a user leaves that user's
\* address list as it was when the list holds an address with the same
\* (phone, street) pair, whatever its city, notes and full_name, and otherwise
\* appends exactly the submitted address; no address list ever holds two
\* entries with the same (phone, street) pair.
C1_AddressDedup ==
    [][ /\ NoDuplicateKeys(user')
        /\ (resp'.op = "add_address" /\ resp'.code = 200) =>
             LET r == resp'.req
                 before == find_one_by_phone(user, r.phone)
                 after == find_one_by_phone(user', r.phone)
                 key == <<validate_phone(r.body.phone).value, r.body.street>>
             IN before # <<>> =>
                  /\ after # <<>>
                  /\ Len(user') = Len(user)
                  /\ IF \E i \in DOMAIN before[1].addresses :
                            KeyOf(before[1].addresses[i]) = key
                     THEN after[1].addresses = before[1].addresses
                     ELSE /\ Len(after[1].addresses) = Len(before[1].addresses) + 1
                          /\ SubSeq(after[1].addresses, 1, Len(before[1].addresses))
                                = before[1].addresses
                          /\ KeyOf(after[1].addresses[Len(after[1].addresses)]) = key
      ]_vars

\* A duplicate was refused: the last add_address carried the key of a stored
\* address of a list of two or more, with another city than the stored one.
C1_Witness ==
    /\ resp.op = "add_address"
    /\ resp.code = 200
    /\ \E u \in DOMAIN user :
         /\ user[u].phone = resp.req.phone
         /\ Len(user[u].addresses) >= 2
         /\ \E i \in DOMAIN user[u].addresses :
              /\ KeyOf(user[u].addresses[i])
                    = <<validate_phone(resp.req.body.phone).value, resp.req.body.street>>
              /\ user[u].addresses[i].city # resp.req.body.city
              /\ user[u].addresses[i].notes # resp.req.body.notes
              /\ user[u].addresses[i].full_name # resp.req.body.full_name

\* Whether a product_id string names a product of the catalog.
Resolves(product_id) ==
    /\ is_valid(product_id)
    /\ \E i \in DOMAIN product : product[i]._id = ObjectId(product_id)

\* C2: a create_order request with an item whose product_id resolves to no
\* product is answered 400 and writes nothing: no order, no user.
C2_UnknownProductRejected ==
    [][ ( /\ resp'.op = "create_order"
          /\ \A i \in DOMAIN resp'.req.body.items : resp'.req.body.items[i].quantity >= 1
          /\ \E i \in DOMAIN resp'.req.body.items :
                ~Resolves(resp'.req.body.items[i].product_id) )
        => (resp'.code = 400 /\ order' = order /\ user' = user)
      ]_vars

\* C3: update_order_status answers 400 to a status outside the six allowed
\* ones and 404 to an order id that matches no order, changing no order;
\* otherwise it succeeds from any current status, stores the requested status
\* and returns the updated order.
C3_StatusUpdateContract ==
    [][ resp'.op = "update_order_status" =>
          LET r == resp'.req
              hits == {i \in DOMAIN order : StrOfOid(order[i]._id) = r.order_id}
          IN IF r.body.status \notin OrderStatus
             THEN resp'.code = 400 /\ order' = order
             ELSE IF hits = {}
             THEN resp'.code = 404 /\ order' = order
             ELSE /\ resp'.code = 200
                  /\ Len(order') = Len(order)
                  /\ \A i \in hits :
                        /\ order'[i].status = r.body.status
                        /\ resp'.body = order_doc_with_id(order'[i])
                  /\ \A i \in DOMAIN order : i \notin hits => order'[i] = order[i]
      ]_vars

\* C4: a create_order request with a valid phone and at least one item, every
\* item naming an existing product, stores exactly one new order in status
\* "Pending COD" whose items snapshot the products, returns its id and that
\* status, and leaves a user for the normalized phone holding the address.
C4_ValidOrderPersisted ==
    [][ ( /\ resp'.op = "create_order"
          /\ validate_phone(resp'.req.body.phone).ok
          /\ resp'.req.body.items # <<>>
          /\ \A i \in DOMAIN resp'.req.body.items :
                /\ resp'.req.body.items[i].quantity >= 1
                /\ Resolves(resp'.req.body.items[i].product_id) )
        => LET b == resp'.req.body
               phone == validate_phone(b.phone).value
               n == Len(order')
           IN /\ resp'.code = 200
              /\ n = Len(order) + 1
              /\ SubSeq(order', 1, Len(order)) = order
              /\ order'[n].status = "Pending COD"
              /\ resp'.body = [id |-> StrOfOid(order'[n]._id), status |-> "Pending COD"]
              /\ Len(order'[n].items) = Len(b.items)
              /\ \A i \in DOMAIN b.items :
                    \E p \in DOMAIN product :
                        /\ product[p]._id = ObjectId(b.items[i].product_id)
                        /\ order'[n].items[i].name = product[p].name
                        /\ order'[n].items[i].price_syp = product[p].price_syp
                        /\ order'[n].items[i].quantity = b.items[i].quantity
              /\ \E u \in DOMAIN user' :
                    /\ user'[u].phone = phone
                    /\ \E a \in DOMAIN user'[u].addresses :
                          KeyOf(user'[u].addresses[a]) = <<phone, b.street>>
      ]_vars

\* price_syp is x = cents * rate / 100 rounded to the nearest integer.
IsRounded(price_syp, x100) == price_syp = RoundHalfEven(x100, 100)

\* price_syp is the integer part of x = cents * rate / 100, for x >= 0.
IsIntegerPart(price_syp, x100) == 100 * price_syp <= x100 /\ x100 < 100 * (price_syp + 1)

\* The catalog is the five demonstration products, each priced one rounded
\* (rounded = TRUE) or truncated (FALSE) from its USD price.
SeededWith(rounded) ==
    /\ Len(product) = Len(SeedTable)
    /\ \A i \in DOMAIN SeedTable :
         /\ product[i].name = SeedTable[i].name
         /\ product[i].category = SeedTable[i].category
         /\ IF SeedTable[i].usd = <<>>
            THEN product[i].price_usd = 0 /\ product[i].price_syp = 0
            ELSE /\ product[i].price_usd = SeedTable[i].usd[1]
                 /\ IF rounded
                    THEN IsRounded(product[i].price_syp, SeedTable[i].usd[1] * usd_to_syp_rate)
                    ELSE IsIntegerPart(product[i].price_syp,
                                       SeedTable[i].usd[1] * usd_to_syp_rate)

C6_Notification ==
    [][ resp'.op = "order_notifications" =>
          LET hits == {i \in DOMAIN order :
                          /\ order[i].user_phone = resp'.req.phone
                          /\ order[i].status = "On Delivery"}
          IN /\ order' = order /\ user' = user /\ product' = product
             /\ resp'.code = 200
             /\ resp'.body.on_delivery = (hits # {})
             /\ hits # {} =>
                  \E i \in hits :
                     /\ \A j \in hits : order[j].updated_at <= order[i].updated_at
                     /\ resp'.body.order_id = StrOfOid(order[i]._id)
                     /\ resp'.body.expected_delivery_date = order[i].expected_delivery_date
      ]_vars

\* Two orders of the phone are "On Delivery" and the first one, updated after
\* the second, is the one reported, with its date.
C6_Witness ==
    /\ resp.op = "order_notifications"
    /\ resp.body.on_delivery
    /\ Len(order) >= 2
    /\ order[1].user_phone = resp.req.phone /\ order[1].status = "On Delivery"
    /\ order[2].user_phone = resp.req.phone /\ order[2].status = "On Delivery"
    /\ order[1].updated_at > order[2].updated_at
    /\ resp.body.order_id = StrOfOid(order[1]._id)
    /\ resp.body.expected_delivery_date # None

\* C7: a request whose identifier is not a structurally valid document id is
\* answered with a 4xx client error, never a 500, and changes nothing stored.
C7_MalformedIdIsClientError ==
    [][ ( \/ /\ resp'.op = "get_product"
             /\ ~is_valid(resp'.req.product_id)
          \/ /\ resp'.op = "create_order"
             /\ \E i \in DOMAIN resp'.req.body.items :
                   ~is_valid(resp'.req.body.items[i].product_id)
          \/ /\ resp'.op = "update_order_status"
             /\ ~is_valid(resp'.req.order_id) )
        => /\ resp'.code \in 400..499
           /\ product' = product /\ user' = user /\ order' = order
      ]_vars

\* C8: the phone of every stored user is in the normalized +963 format.
C8_UserPhonesNormalized ==
    \A u \in DOMAIN user : IsNormalized(user[u].phone)

\* C9: there is at most one user document per phone, also when requests for a
\* phone that has no user yet interleave.
C9_OneUserPerPhone ==
    \A u, v \in DOMAIN user : user[u].phone = user[v].phone => u = v

\* C10: once no request is in flight, every acknowledged address is in the
\* address list of the user it was acknowledged for.
C10_NoAckedAddressLost ==
    (\A w \in Workers : inflight[w] = Idle) =>
        \A k \in acked :
            \E u \in DOMAIN user :
                /\ user[u].phone = k[1]
                /\ \E a \in DOMAIN user[u].addresses :
                      KeyOf(user[u].addresses[a]) = <<k[2], k[3]>>

=============================================================================
